---- MODULE Spec2Model ----
(***************************************************************************)
(* A model of @kogs/argv (src/argv/index.mjs): parse(manifest, args).      *)
(*                                                                         *)
(* A JavaScript string is a sequence of one-character strings, so that    *)
(* startsWith, indexOf, slice, the regular expressions and the number      *)
(* parsers are computed character by character as the code computes them.  *)
(* A JavaScript value is a record with one shape (see Undefined .. List).  *)
(* An object is a function from its own keys (strings) to values; what an  *)
(* object inherits from Object.prototype is not modelled.                  *)
(* One call of parse is one behaviour: Init draws the two arguments, every *)
(* iteration of the consumption loop is a step, and so is each phase that  *)
(* follows the loop.                                                       *)
(***************************************************************************)
EXTENDS Integers, Sequences, FiniteSets, TLC

VARIABLES
    manifest,     \* the manifest argument: [given, kind, entries]
    argsType,     \* what the args argument is: "array", "string" or "undefined"
    processArgv,  \* process.argv
    out,          \* what syntax or renderOptionName returned
    input,        \* the array parse works on, as it was before the loop
    args,         \* the args array as it is now (parse shifts it)
    parsed,       \* const parsed = {}: own key -> value
    hiddenKeys,   \* the keys of parsed defined non-enumerable (and non-writable)
    positional,   \* const positional = []
    arg,          \* const arg = args.shift() of the latest loop iteration
    roles,        \* for each token removed so far, what it was removed as
    idx,          \* position of the coercion loop in Object.entries(manifest)
    error,        \* the exception thrown, if any: [name, code]
    pc            \* where parse is

vars == << manifest, argsType, processArgv, out, input, args, parsed, hiddenKeys, positional, arg, roles,
           idx, error, pc >>

(***************************************************************************)
(* Bounds of the model.                                                    *)
(***************************************************************************)
MaxArgs == 3
MaxCallArgs == 2
MaxSyntaxEntries == 2
MaxLiveArgs == 2

(***************************************************************************)
(* JavaScript values.                                                      *)
(***************************************************************************)
Undefined == [kind |-> "undefined", b |-> FALSE, s |-> << >>, n |-> 0, d |-> 1, l |-> << >>]
Bool(x)   == [kind |-> "boolean",   b |-> x,     s |-> << >>, n |-> 0, d |-> 1, l |-> << >>]
Str(x)    == [kind |-> "string",    b |-> FALSE, s |-> x,     n |-> 0, d |-> 1, l |-> << >>]
\* The number n/d, d a power of ten.
Num(x, y) == [kind |-> "number",    b |-> FALSE, s |-> << >>, n |-> x, d |-> y, l |-> << >>]
NaN       == [kind |-> "NaN",       b |-> FALSE, s |-> << >>, n |-> 0, d |-> 1, l |-> << >>]
List(x)   == [kind |-> "object",    b |-> FALSE, s |-> << >>, n |-> 0, d |-> 1, l |-> x]

\* typeof v
TypeOf(v) == IF v.kind = "NaN" THEN "number" ELSE v.kind

\* isNaN(v), for the values the code applies it to
IsNaN(v) == v.kind = "NaN"

(***************************************************************************)
(* Characters.                                                             *)
(***************************************************************************)
LowerCase == {"a","b","c","d","e","f","g","h","i","j","k","l","m",
              "n","o","p","q","r","s","t","u","v","w","x","y","z"}
UpperCase == {"A","B","C","D","E","F","G","H","I","J","K","L","M",
              "N","O","P","Q","R","S","T","U","V","W","X","Y","Z"}
DigitSeq  == <<"0","1","2","3","4","5","6","7","8","9">>
Digits    == {DigitSeq[i] : i \in 1..Len(DigitSeq)}
DigitOf(c) == (CHOOSE i \in 1..Len(DigitSeq) : DigitSeq[i] = c) - 1
HexLower  == <<"0","1","2","3","4","5","6","7","8","9","a","b","c","d","e","f">>
HexUpper  == <<"0","1","2","3","4","5","6","7","8","9","A","B","C","D","E","F">>
HexDigits == {HexLower[i] : i \in 1..Len(HexLower)} \cup {HexUpper[i] : i \in 1..Len(HexUpper)}
HexOf(c)  == (CHOOSE i \in 1..Len(HexLower) : HexLower[i] = c \/ HexUpper[i] = c) - 1
WhiteSpace == {" "}

(***************************************************************************)
(* String operations, with JavaScript's 0-based indices.                   *)
(***************************************************************************)
\* str.startsWith(prefix)
StartsWith(str, prefix) ==
    /\ Len(str) >= Len(prefix)
    /\ SubSeq(str, 1, Len(prefix)) = prefix

\* str.indexOf(c) for a character c: -1 when absent
IndexOf(str, c) ==
    IF \E i \in 1..Len(str) : str[i] = c
    THEN (CHOOSE i \in 1..Len(str) :
             str[i] = c /\ \A j \in 1..(i - 1) : str[j] # c) - 1
    ELSE -1

\* str.slice(from, to) for 0 <= from, to
Slice(str, from, to) ==
    SubSeq(str, from + 1, IF to > Len(str) THEN Len(str) ELSE to)

\* str.slice(from)
SliceFrom(str, from) == Slice(str, from, Len(str))

(***************************************************************************)
(* The token classifier and the name validator.                            *)
(***************************************************************************)
isOpt(a) == StartsWith(a, <<"-">>)

isLongOpt(a) == StartsWith(a, <<"-", "-">>)

isShortOpt(a) == isOpt(a) /\ ~isLongOpt(a)

\* A variant of isValidOptName that only asks for a non-empty name.
isValidOptName_NonEmpty(name) == Len(name) >= 1

\* /^[a-zA-Z][a-zA-Z0-9-]*$/.test(name)
isValidOptName(name) ==
    /\ Len(name) >= 1
    /\ name[1] \in LowerCase \cup UpperCase
    /\ \A i \in 2..Len(name) :
          name[i] \in LowerCase \cup UpperCase \cup Digits \cup {"-"}

\* /[a-zA-Z]/.test(flag) for the one-character string flag
isFlagChar(flag) == flag \in LowerCase \cup UpperCase

(***************************************************************************)
(* The number parsers the coercion calls (ECMAScript parseInt, parseFloat).*)
(***************************************************************************)
RECURSIVE RunLen(_, _, _)
\* The length of the longest run of characters of `set` in s from position i.
RunLen(s, i, set) ==
    IF i <= Len(s) /\ s[i] \in set THEN 1 + RunLen(s, i + 1, set) ELSE 0

RECURSIVE DecValue(_)
DecValue(s) ==
    IF s = << >> THEN 0
    ELSE DecValue(SubSeq(s, 1, Len(s) - 1)) * 10 + DigitOf(s[Len(s)])

RECURSIVE HexValue(_)
HexValue(s) ==
    IF s = << >> THEN 0
    ELSE HexValue(SubSeq(s, 1, Len(s) - 1)) * 16 + HexOf(s[Len(s)])

RECURSIVE Pow10(_)
Pow10(k) == IF k = 0 THEN 1 ELSE 10 * Pow10(k - 1)

RECURSIVE Normalize(_, _)
\* The number n/d in lowest power-of-ten terms.
Normalize(n, d) ==
    IF d > 1 /\ n % 10 = 0 THEN Normalize(n \div 10, d \div 10) ELSE Num(n, d)

RECURSIVE Join(_)
\* list.join(','), for a list of strings
Join(list) ==
    IF Len(list) = 0 THEN << >>
    ELSE IF Len(list) = 1 THEN list[1]
    ELSE list[1] \o <<",">> \o Join(Tail(list))

RECURSIVE NatDigits(_)
\* The decimal digits of a natural number.
NatDigits(n) ==
    IF n < 10 THEN << DigitSeq[n + 1] >>
    ELSE NatDigits(n \div 10) \o << DigitSeq[(n % 10) + 1] >>

RECURSIVE FracDigits(_, _)
\* The digits of r/d after the point, d a power of ten and r < d.
FracDigits(r, d) ==
    IF d = 1 THEN << >>
    ELSE FracDigits(r \div 10, d \div 10) \o << DigitSeq[(r % 10) + 1] >>

\* Number.prototype.toString, for the number n/d in lowest terms
NumToString(n, d) ==
    LET a == IF n < 0 THEN -n ELSE n
    IN  (IF n < 0 THEN <<"-">> ELSE << >>)
        \o NatDigits(a \div d)
        \o (IF d = 1 THEN << >> ELSE <<".">> \o FracDigits(a % d, d))

\* ToString(v), for the values parse hands to the number parsers and joins
ToJSString(v) ==
    CASE v.kind = "string"    -> v.s
      [] v.kind = "boolean"   -> IF v.b THEN <<"t","r","u","e">> ELSE <<"f","a","l","s","e">>
      [] v.kind = "undefined" -> <<"u","n","d","e","f","i","n","e","d">>
      [] v.kind = "object"    -> Join(v.l)
      [] v.kind = "number"    -> NumToString(v.n, v.d)
      [] v.kind = "NaN"       -> <<"N","a","N">>

\* The string with its leading white space removed.
TrimStart(s) == SliceFrom(s, RunLen(s, 1, WhiteSpace))

\* The string after an optional sign.
Unsigned(s) ==
    IF Len(s) >= 1 /\ s[1] \in {"+", "-"} THEN SliceFrom(s, 1) ELSE s

SignOf(s) == IF Len(s) >= 1 /\ s[1] = "-" THEN -1 ELSE 1

\* A variant of ParseInt that rounds down instead of stopping at the point.
ParseInt_Floor(v) ==
    LET S      == TrimStart(ToJSString(v))
        ilen   == RunLen(Unsigned(S), 1, Digits)
        hasDot == Len(Unsigned(S)) > ilen /\ Unsigned(S)[ilen + 1] = "."
        flen   == IF hasDot THEN RunLen(Unsigned(S), ilen + 2, Digits) ELSE 0
        whole  == DecValue(SubSeq(Unsigned(S), 1, ilen))
        frac   == DecValue(SubSeq(Unsigned(S), ilen + 2, ilen + 1 + flen))
    IN  IF ilen = 0 THEN NaN
        ELSE IF SignOf(S) = -1 /\ frac > 0 THEN Num(-(whole + 1), 1)
        ELSE Num(SignOf(S) * whole, 1)

\* parseInt(v): no radix given, so 10 unless the digits follow 0x or 0X
ParseInt(v) ==
    LET S    == TrimStart(ToJSString(v))
        sign == SignOf(S)
        U    == Unsigned(S)
        hex  == StartsWith(U, <<"0","x">>) \/ StartsWith(U, <<"0","X">>)
        body == IF hex THEN SliceFrom(U, 2) ELSE U
        len  == RunLen(body, 1, IF hex THEN HexDigits ELSE Digits)
        Z    == SubSeq(body, 1, len)
    IN  IF len = 0 THEN NaN
        ELSE Num(sign * (IF hex THEN HexValue(Z) ELSE DecValue(Z)), 1)

\* parseFloat(v): the longest prefix that is a decimal literal (digits with an
\* optional fraction; exponents and Infinity are outside the modelled tokens)
ParseFloat(v) ==
    LET S      == TrimStart(ToJSString(v))
        sign   == SignOf(S)
        U      == Unsigned(S)
        ilen   == RunLen(U, 1, Digits)
        hasDot == Len(U) > ilen /\ U[ilen + 1] = "."
        flen   == IF hasDot THEN RunLen(U, ilen + 2, Digits) ELSE 0
        I      == SubSeq(U, 1, ilen)
        F      == SubSeq(U, ilen + 2, ilen + 1 + flen)
    IN  IF ilen = 0 /\ flen = 0 THEN NaN
        ELSE Normalize(sign * (DecValue(I) * Pow10(flen) + DecValue(F)), Pow10(flen))

(***************************************************************************)
(* Objects.                                                                *)
(***************************************************************************)
EmptyObject == << >>

\* obj[key]
Get(obj, key) == IF key \in DOMAIN obj THEN obj[key] ELSE Undefined

\* A variant of Put that keeps the value a key already has.
Put_KeepsFirst(obj, key, v) ==
    [k \in (DOMAIN obj) \cup {key} |-> IF k \in DOMAIN obj THEN obj[k] ELSE v]

\* obj[key] = v
Put(obj, key, v) ==
    [k \in (DOMAIN obj) \cup {key} |-> IF k = key THEN v ELSE obj[k]]

\* String(i) for an array index i < 10
IndexKey(i) == << DigitSeq[i + 1] >>

\* Whether a property key is an array index (a canonical numeric string).
IsArrayIndex(key) ==
    /\ Len(key) >= 1
    /\ \A i \in 1..Len(key) : key[i] \in Digits
    /\ (Len(key) = 1 \/ key[1] # "0")

(***************************************************************************)
(* Manifests: the entries of the object literal in the order written.      *)
(***************************************************************************)
NoType    == [defined |-> FALSE, name |-> ""]
Type(t)   == [defined |-> TRUE, name |-> t]
NoAllow   == [defined |-> FALSE, isArray |-> FALSE, items |-> << >>]
Allow(xs) == [defined |-> TRUE, isArray |-> TRUE, items |-> xs]

Opt(type, default, required, allow) ==
    [isObject |-> TRUE, type |-> type, default |-> default,
     required |-> required, allow |-> allow]

Entry(name, opt) == [name |-> name, opt |-> opt]

NoManifest == [given |-> FALSE, kind |-> "undefined", entries |-> << >>]
Manifest(entries) == [given |-> TRUE, kind |-> "object", entries |-> entries]

\* a manifest argument that is no object: null, a number or a string; none of
\* them has an own property an option name of the model could match
NotAnObject(kind) == [given |-> TRUE, kind |-> kind, entries |-> << >>]

\* manifest.hasOwnProperty(name)
HasOwn(m, name) == \E i \in 1..Len(m.entries) : m.entries[i].name = name

\* manifest[name], for a name the manifest has
OptOf(m, name) ==
    m.entries[CHOOSE i \in 1..Len(m.entries) : m.entries[i].name = name].opt

\* A variant of IsBooleanOpt that never consults the manifest.
IsBooleanOpt_Never(m, name) == FALSE

\* manifest?.[name]?.type === 'boolean'
IsBooleanOpt(m, name) ==
    /\ m.given
    /\ HasOwn(m, name)
    /\ OptOf(m, name).isObject
    /\ OptOf(m, name).type = Type("boolean")

RECURSIVE SortByIndex(_)
SortByIndex(S) ==
    IF S = {} THEN << >>
    ELSE LET e == CHOOSE x \in S : \A y \in S : DecValue(x.name) <= DecValue(y.name)
         IN  << e >> \o SortByIndex(S \ {e})

IsIndexEntry(e) == IsArrayIndex(e.name)

IsNamedEntry(e) == ~IsArrayIndex(e.name)

\* A variant of ObjectEntries that keeps the order the literal was written in.
ObjectEntries_AsWritten(m) == m.entries

\* Object.entries(manifest): array-index keys ascending, then the other keys in
\* the order written
ObjectEntries(m) ==
    SortByIndex({m.entries[i] : i \in {j \in 1..Len(m.entries) : IsIndexEntry(m.entries[j])}})
        \o SelectSeq(m.entries, IsNamedEntry)

(***************************************************************************)
(* validateManifest(manifest): which throw statement it reaches.           *)
(***************************************************************************)
ValidTypes == {"boolean", "string", "int", "float"}

\* const expectedType = opt.type === 'string' ? 'string' : 'number'
ExpectedType(opt) == IF opt.type.name = "string" THEN "string" ELSE "number"

\* opt.allow.includes(v)
Includes(allow, v) == \E i \in 1..Len(allow.items) : allow.items[i] = v

\* A variant of AllowFault that does not look for the default in the list.
AllowFault_SkipsDefault(opt) ==
    IF ~opt.allow.isArray \/ Len(opt.allow.items) = 0 THEN "allow-shape"
    ELSE IF opt.type.name = "boolean" THEN "allow-boolean"
    ELSE IF \E i \in 1..Len(opt.allow.items) :
               TypeOf(opt.allow.items[i]) # ExpectedType(opt)
         THEN "allow-value"
    ELSE "none"

\* lines 100-118: the throw statement the allow list of opt reaches, if any
AllowFault(opt) ==
    IF ~opt.allow.isArray \/ Len(opt.allow.items) = 0 THEN "allow-shape"
    ELSE IF opt.type.name = "boolean" THEN "allow-boolean"
    ELSE IF \E i \in 1..Len(opt.allow.items) :
               TypeOf(opt.allow.items[i]) # ExpectedType(opt)
         THEN "allow-value"
    ELSE IF opt.default # Undefined /\ ~Includes(opt.allow, opt.default)
         THEN "allow-default"
    ELSE "none"

AllowInvalid(opt) == AllowFault(opt) # "none"

\* A variant of EntryFault that lets an entry without a type through.
EntryFault_TypeOptional(opt) ==
    IF ~opt.isObject THEN "entry"
    ELSE IF opt.type.defined /\ opt.type.name \notin ValidTypes THEN "type-invalid"
    ELSE IF opt.type.defined /\ opt.default # Undefined
            /\ TypeOf(opt.default) # opt.type.name
         THEN "default-type"
    ELSE IF opt.allow.defined THEN AllowFault(opt)
    ELSE "none"

\* A variant of EntryFault that does not compare the default with the type.
EntryFault_IgnoresDefault(opt) ==
    IF ~opt.isObject THEN "entry"
    ELSE IF ~opt.type.defined THEN "type-missing"
    ELSE IF opt.type.name \notin ValidTypes THEN "type-invalid"
    ELSE IF opt.allow.defined THEN AllowFault_SkipsDefault(opt)
    ELSE "none"

\* lines 85-118: the throw statement one manifest entry reaches, if any
EntryFault(opt) ==
    IF ~opt.isObject THEN "entry"
    ELSE IF ~opt.type.defined THEN "type-missing"
    ELSE IF opt.type.name \notin ValidTypes THEN "type-invalid"
    ELSE IF opt.default # Undefined /\ TypeOf(opt.default) # opt.type.name
         THEN "default-type"
    ELSE IF opt.allow.defined THEN AllowFault(opt)
    ELSE "none"

EntryInvalid(opt) == EntryFault(opt) # "none"

ManifestInvalid(m) ==
    \E i \in 1..Len(m.entries) : EntryInvalid(m.entries[i].opt)

\* lines 84-119: the loop throws at the first entry of Object.entries(manifest)
\* that reaches a throw statement
ManifestFault(m) ==
    LET es  == ObjectEntries(m)
        bad == { i \in 1..Len(es) : EntryInvalid(es[i].opt) }
    IN  IF bad = {} THEN "none"
        ELSE EntryFault(es[CHOOSE i \in bad : \A j \in bad : i <= j].opt)

(***************************************************************************)
(* renderOptionName(name, opt) and syntax(manifest).                       *)
(***************************************************************************)
RECURSIVE JoinWith(_, _)
\* items.join(sep)
JoinWith(items, sep) ==
    IF Len(items) = 0 THEN << >>
    ELSE IF Len(items) = 1 THEN ToJSString(items[1])
    ELSE ToJSString(items[1]) \o sep \o JoinWith(Tail(items), sep)

\* The characters of a type name.
TypeChars(t) ==
    CASE t = "boolean" -> <<"b","o","o","l","e","a","n">>
      [] t = "string"  -> <<"s","t","r","i","n","g">>
      [] t = "int"     -> <<"i","n","t">>
      [] t = "float"   -> <<"f","l","o","a","t">>

\* opt.allow?.join('|')
AllowJoined(opt) ==
    IF opt.allow.defined THEN Str(JoinWith(opt.allow.items, <<"|">>)) ELSE Undefined

\* lines 71-73: + binds tighter than ??, so the left operand of ?? is the
\* string '=<' + opt.allow?.join('|'), which is never null or undefined
renderOptionName(name, opt) ==
    name \o (IF opt.type.name = "boolean" THEN << >>
             ELSE <<"=","<">> \o ToJSString(AllowJoined(opt)))

\* name.match(/^\d+$/)
IsDigitString(name) ==
    Len(name) > 0 /\ \A i \in 1..Len(name) : name[i] \in Digits

\* A variant of SyntaxPart that writes every flag as -name=.
SyntaxPart_OneDash(name, opt) ==
    LET isPositional == IsDigitString(name)
        flag  == IF isPositional THEN << >> ELSE <<"-">> \o name
        value == IF opt.type.name = "boolean" THEN << >>
                 ELSE (IF isPositional THEN << >> ELSE <<"=">>)
                      \o <<"<">>
                      \o (IF AllowJoined(opt) # Undefined THEN AllowJoined(opt).s
                          ELSE TypeChars(opt.type.name))
                      \o <<">">>
    IN  IF ~opt.required THEN <<"[">> \o flag \o value \o <<"]">>
        ELSE flag \o value

\* lines 254-274: the part of one manifest entry
SyntaxPart(name, opt) ==
    LET isPositional == IsDigitString(name)
        flag  == IF isPositional THEN << >>
                 ELSE IF Len(name) = 1 THEN <<"-">> \o name
                 ELSE <<"-","-">> \o name
        value == IF opt.type.name = "boolean" THEN << >>
                 ELSE (IF isPositional THEN << >>
                       ELSE IF Len(name) = 1 THEN <<" ">> ELSE <<"=">>)
                      \o <<"<">>
                      \o (IF AllowJoined(opt) # Undefined THEN AllowJoined(opt).s
                          ELSE TypeChars(opt.type.name))
                      \o <<">">>
    IN  IF ~opt.required THEN <<"[">> \o flag \o value \o <<"]">>
        ELSE flag \o value

RECURSIVE SyntaxParts(_)
\* lines 253-275: the parts of the entries, in the order of Object.entries
SyntaxParts(es) ==
    IF Len(es) = 0 THEN << >>
    ELSE << Str(SyntaxPart(es[1].name, es[1].opt)) >> \o SyntaxParts(Tail(es))

\* lines 247-277: syntax(manifest); what it returns, or that it throws
syntax(m) ==
    IF m.kind # "object" THEN [threw |-> FALSE, value |-> << >>]
    ELSE IF ManifestInvalid(m) THEN [threw |-> TRUE, value |-> << >>]
    ELSE [threw |-> FALSE,
          value |-> JoinWith(SyntaxParts(ObjectEntries(m)), <<" ">>)]

(***************************************************************************)
(* The inputs of the model: tokens and manifests.                          *)
(***************************************************************************)
Tokens ==
    { <<"-","-","a">>,                       \* --a
      <<"-","-","a","=","b","=">>,           \* --a=b=
      <<"-","-","a","=">>,                   \* --a=
      <<"-","-","a","=","-","1",".","5">>,   \* --a=-1.5
      <<"-","-","c","-","1">>,               \* --c-1
      <<"-","-","_">>,                       \* --_
      <<"-","-","=","b">>,                   \* --=b
      <<"-","a","b","a">>,                   \* -aba
      <<"-","a">>,                           \* -a
      <<"-","a","2">>,                       \* -a2
      <<"-">>,                               \* -
      <<"1",".","5">>,                       \* 1.5
      <<"b">> }                              \* b

KeyA  == <<"a">>
KeyB  == <<"b">>
KeyC1 == <<"c","-","1">>
Key0  == <<"0">>
KeyUnderscore == <<"_">>

\* The first two entries of process.argv: the executable and the script path.
ProcessPrefix == << <<"n","o","d","e">>, <<"t","e","s","t",".","m","j","s">> >>

Plain(t) == Opt(Type(t), Undefined, FALSE, NoAllow)

Manifests ==
    { NoManifest,
      Manifest(<< >>),
      Manifest(<< Entry(KeyA, Plain("boolean")) >>),
      Manifest(<< Entry(KeyA, Plain("int")), Entry(KeyB, Plain("boolean")),
                  Entry(Key0, Plain("int")) >>),
      Manifest(<< Entry(KeyA, Plain("string")), Entry(KeyB, Plain("string")) >>),
      Manifest(<< Entry(KeyB, Plain("boolean")), Entry(KeyA, Plain("float")),
                  Entry(Key0, Plain("string")) >>),
      Manifest(<< Entry(KeyA, Opt(Type("string"), Undefined, TRUE,
                                  Allow(<< Str(<<"b">>), Str(<< >>) >>))),
                  Entry(KeyC1, Opt(Type("boolean"), Bool(FALSE), FALSE, NoAllow)) >>),
      Manifest(<< Entry(KeyA, Opt(NoType, Undefined, FALSE, NoAllow)) >>) }

\* a manifest entry that is a string instead of an object
NotAnOpt ==
    [isObject |-> FALSE, type |-> NoType, default |-> Undefined,
     required |-> FALSE, allow |-> NoAllow]

\* allow: 'bar'
AllowNoArray == [defined |-> TRUE, isArray |-> FALSE, items |-> << >>]

One(k, opt) == Manifest(<< Entry(k, opt) >>)

\* The manifests of the schema tests, and the ones the schema rules call for.
CallManifests ==
    { NoManifest,
      NotAnObject("null"), NotAnObject("number"), NotAnObject("string"),
      One(KeyA, NotAnOpt),
      One(KeyA, Opt(NoType, Undefined, FALSE, NoAllow)),
      One(KeyA, Opt(NoType, Str(<<"b">>), FALSE, NoAllow)),
      One(KeyA, Opt(Type("number"), Undefined, FALSE, NoAllow)),
      One(KeyA, Opt(Type("string"), Undefined, TRUE, NoAllow)),
      One(KeyA, Opt(Type("string"), Num(1, 1), FALSE, NoAllow)),
      One(KeyA, Opt(Type("boolean"), Str(<<"b">>), FALSE, NoAllow)),
      One(KeyA, Opt(Type("int"), Num(1, 1), FALSE, NoAllow)),
      One(KeyA, Opt(Type("float"), Num(15, 10), TRUE, NoAllow)),
      One(KeyA, Opt(Type("int"), Undefined, FALSE, Allow(<< Num(-15, 10) >>))),
      One(KeyA, Opt(Type("float"), Undefined, FALSE,
                    Allow(<< Num(-15, 10), Num(15, 10) >>))),
      One(KeyA, Opt(Type("string"), Str(<<"b">>), FALSE,
                    Allow(<< Str(<<"b">>), Str(<<"1",".","5">>) >>))),
      One(KeyA, Opt(Type("string"), Str(<<"x">>), FALSE, Allow(<< Str(<<"b">>) >>))),
      One(KeyA, Opt(Type("boolean"), Undefined, FALSE, Allow(<< Bool(TRUE) >>))),
      One(KeyA, Opt(Type("string"), Undefined, FALSE, AllowNoArray)),
      One(KeyA, Opt(Type("string"), Undefined, FALSE, Allow(<< >>))),
      One(KeyA, Opt(Type("int"), Undefined, FALSE, Allow(<< Str(<<"b">>) >>))),
      One(KeyA, Opt(Type("string"), Undefined, FALSE,
                    Allow(<< Str(<<"b">>), Num(1, 1) >>))),
      One(KeyUnderscore, Plain("int")),
      One(KeyUnderscore, Opt(Type("string"), Str(<<"x">>), FALSE, NoAllow)),
      One(KeyA, Opt(Type("boolean"), Undefined, TRUE, NoAllow)),
      Manifest(<< Entry(KeyA, Plain("int")),
                  Entry(Key0, Opt(Type("string"), Undefined, TRUE, NoAllow)) >>),
      Manifest(<< Entry(KeyA, Opt(Type("string"), Str(<<"b">>), TRUE, NoAllow)),
                  Entry(KeyB, Opt(Type("boolean"), Bool(FALSE), FALSE, NoAllow)),
                  Entry(Key0, Opt(Type("string"), Undefined, TRUE, NoAllow)) >>),
      Manifest(<< Entry(KeyB, Opt(NoType, Undefined, FALSE, NoAllow)),
                  Entry(Key0, Opt(Type("string"), Undefined, FALSE, Allow(<< >>))) >>),
      Manifest(<< Entry(KeyA, Opt(Type("string"), Undefined, TRUE,
                                  Allow(<< Str(<<"b">>), Str(<< >>) >>))),
                  Entry(KeyC1, Opt(Type("boolean"), Bool(FALSE), FALSE, NoAllow)) >>) }

RECURSIVE SeqsUpTo(_, _)
\* The sequences over S of length at most n.
SeqsUpTo(S, n) ==
    IF n = 0 THEN { << >> }
    ELSE LET shorter == SeqsUpTo(S, n - 1)
         IN  shorter \cup { Append(q, x) : q \in shorter, x \in S }

(***************************************************************************)
(* parse(manifest, args)                                                   *)
(***************************************************************************)
NoError == [name |-> "none", code |-> "", msg |-> ""]
UserError(code) == [name |-> "UserError", code |-> code, msg |-> ""]
DeveloperError == [name |-> "DeveloperError", code |-> "", msg |-> ""]
TypeError == [name |-> "TypeError", code |-> "", msg |-> ""]

\* new DeveloperError(msg): msg names the throw statement of the source
DeveloperErrorAt(msg) == [DeveloperError EXCEPT !.msg = msg]

Init ==
    /\ manifest \in Manifests
    /\ argsType = "array"
    /\ processArgv = ProcessPrefix
    /\ out = << >>
    /\ input \in SeqsUpTo(Tokens, MaxArgs)
    /\ args = input
    /\ parsed = EmptyObject
    /\ hiddenKeys = {}
    /\ positional = << >>
    /\ arg = << >>
    /\ roles = << >>
    /\ idx = 0
    /\ error = NoError
    /\ pc = "loop"

\* One token of each kind the loop tells apart.
LiveTokens ==
    { <<"-","-","a">>,                       \* --a
      <<"-","-","a","=","b","=">>,           \* --a=b=
      <<"-","a","b","a">>,                   \* -aba
      <<"-","a","2">>,                       \* -a2
      <<"b">> }                              \* b

LiveManifests ==
    { NoManifest,
      Manifest(<< Entry(KeyA, Plain("boolean")) >>),
      Manifest(<< Entry(KeyA, Plain("string")), Entry(KeyB, Plain("string")) >>) }

\* The calls the termination of the loop is checked on.
InitLive ==
    /\ manifest \in LiveManifests
    /\ argsType = "array"
    /\ processArgv = ProcessPrefix
    /\ out = << >>
    /\ input \in SeqsUpTo(LiveTokens, MaxLiveArgs)
    /\ args = input
    /\ parsed = EmptyObject
    /\ hiddenKeys = {}
    /\ positional = << >>
    /\ arg = << >>
    /\ roles = << >>
    /\ idx = 0
    /\ error = NoError
    /\ pc = "loop"

\* The calls of the schema and argument tests: any manifest argument, an args
\* argument that may be no array.
InitCall ==
    /\ manifest \in CallManifests
    /\ argsType \in {"array", "string", "undefined"}
    /\ processArgv \in IF argsType = "undefined"
                       THEN { ProcessPrefix \o q : q \in SeqsUpTo(Tokens, MaxCallArgs) }
                       ELSE { ProcessPrefix }
    /\ out = << >>
    /\ input \in IF argsType = "array" THEN SeqsUpTo(Tokens, MaxCallArgs)
                 ELSE { << >> }
    /\ args = input
    /\ parsed = EmptyObject
    /\ hiddenKeys = {}
    /\ positional = << >>
    /\ arg = << >>
    /\ roles = << >>
    /\ idx = 0
    /\ error = NoError
    /\ pc = "start"

\* The options of the manifests syntax is called with.
SyntaxOpts ==
    { Opt(Type(t), Undefined, r, NoAllow) : t \in ValidTypes, r \in BOOLEAN }
    \cup { Opt(Type("string"), Undefined, r,
               Allow(<< Str(<<"b">>), Str(<<"x">>) >>)) : r \in BOOLEAN }
    \cup { Opt(Type("float"), Undefined, r,
               Allow(<< Num(-15, 10), Num(2, 1) >>)) : r \in BOOLEAN }
    \cup { Opt(NoType, Undefined, FALSE, NoAllow) }

SyntaxKeys == { KeyA, KeyC1, Key0 }

\* The object literals of at most n entries with distinct keys.
SyntaxObjects(n) ==
    { es \in SeqsUpTo({ Entry(k, o) : k \in SyntaxKeys, o \in SyntaxOpts }, n) :
        \A i, j \in 1..Len(es) : i # j => es[i].name # es[j].name }

\* A call of syntax(manifest).
InitSyntax ==
    /\ manifest \in { NoManifest, NotAnObject("null"), NotAnObject("number"),
                       NotAnObject("string") }
                     \cup { Manifest(es) : es \in SyntaxObjects(MaxSyntaxEntries) }
    /\ argsType = "undefined"
    /\ processArgv = ProcessPrefix
    /\ out = << >>
    /\ input = << >>
    /\ args = << >>
    /\ parsed = EmptyObject
    /\ hiddenKeys = {}
    /\ positional = << >>
    /\ arg = << >>
    /\ roles = << >>
    /\ idx = 0
    /\ error = NoError
    /\ pc = "syntax"

\* throw e
Throw(e) == error' = e /\ pc' = "thrown"

\* lines 247-277: the whole of syntax(manifest)
CallSyntax ==
    /\ pc = "syntax"
    /\ IF syntax(manifest).threw
       THEN Throw(DeveloperErrorAt(ManifestFault(manifest))) /\ UNCHANGED out
       ELSE /\ out' = syntax(manifest).value
            /\ pc' = "returned"
            /\ UNCHANGED error
    /\ UNCHANGED << manifest, argsType, processArgv, input, args, parsed,
                    hiddenKeys, positional, arg, roles, idx >>

\* A variant of ArgvSlice that keeps the executable and the script path.
ArgvSlice_KeepsAll(argv) == argv

\* line 130: process.argv.slice(2), a new array
ArgvSlice(argv) == Slice(argv, 2, Len(argv))

\* lines 129-132: args defaults to a slice of process.argv, and must be an array
Enter ==
    /\ pc = "start"
    /\ IF argsType = "undefined"
       THEN /\ args' = ArgvSlice(processArgv)
            /\ input' = args'
            /\ pc' = "loop" /\ UNCHANGED error
       ELSE IF argsType # "array"
       THEN Throw(DeveloperErrorAt("args")) /\ UNCHANGED << input, args >>
       ELSE pc' = "loop" /\ UNCHANGED << input, args, error >>
    /\ UNCHANGED << manifest, argsType, processArgv, out, parsed, hiddenKeys,
                    positional, arg, roles, idx >>

\* A variant of LongTakesValue that does not look at the next argument's dash.
LongTakesValue_IgnoresDash(m, name, q) ==
    Len(q) > 0 /\ ~IsBooleanOpt(m, name)

\* line 149: the next argument is taken as the value of a long option
LongTakesValue(m, name, q) ==
    Len(q) > 0 /\ ~isOpt(q[1]) /\ ~IsBooleanOpt(m, name)

\* A variant of LongOpt that reads the value token and leaves it in the array.
LongOpt_PeeksValue ==
    /\ pc = "loop" /\ Len(args) > 0
    /\ isLongOpt(Head(args)) /\ IndexOf(Head(args), "=") = -1
    /\ LET rest         == Tail(args)
           cleanArgName == SliceFrom(Head(args), 2)
       IN  /\ arg' = Head(args)
           /\ args' = rest
           /\ roles' = Append(roles, "option")
           /\ IF ~isValidOptName(cleanArgName)
              THEN Throw(UserError("E_INVALID_OPT_NAME")) /\ UNCHANGED parsed
              ELSE IF LongTakesValue(manifest, cleanArgName, rest)
              THEN /\ parsed' = Put(parsed, cleanArgName, Str(Head(rest)))
                   /\ UNCHANGED << error, pc >>
              ELSE /\ parsed' = Put(parsed, cleanArgName, Bool(TRUE))
                   /\ UNCHANGED << error, pc >>
    /\ UNCHANGED << manifest, argsType, processArgv, out, input, hiddenKeys, positional, idx >>

\* A variant of LongOpt that takes the value token before it checks the name.
LongOpt_ShiftsValueFirst ==
    /\ pc = "loop" /\ Len(args) > 0
    /\ isLongOpt(Head(args)) /\ IndexOf(Head(args), "=") = -1
    /\ LET rest         == Tail(args)
           cleanArgName == SliceFrom(Head(args), 2)
           takes        == LongTakesValue(manifest, cleanArgName, rest)
       IN  /\ arg' = Head(args)
           /\ args' = IF takes THEN Tail(rest) ELSE rest
           /\ roles' = IF takes THEN roles \o <<"option", "value">>
                       ELSE Append(roles, "option")
           /\ IF ~isValidOptName(cleanArgName)
              THEN Throw(UserError("E_INVALID_OPT_NAME")) /\ UNCHANGED parsed
              ELSE /\ parsed' = Put(parsed, cleanArgName,
                                    IF takes THEN Str(Head(rest)) ELSE Bool(TRUE))
                   /\ UNCHANGED << error, pc >>
    /\ UNCHANGED << manifest, argsType, processArgv, out, input, hiddenKeys, positional, idx >>

\* lines 140-155: a long option without '='
LongOpt ==
    /\ pc = "loop" /\ Len(args) > 0
    /\ isLongOpt(Head(args)) /\ IndexOf(Head(args), "=") = -1
    /\ LET rest         == Tail(args)
           cleanArgName == SliceFrom(Head(args), 2)
       IN  /\ arg' = Head(args)
           /\ IF ~isValidOptName(cleanArgName)
              THEN /\ Throw(UserError("E_INVALID_OPT_NAME"))
                   /\ args' = rest
                   /\ roles' = Append(roles, "option")
                   /\ UNCHANGED parsed
              ELSE IF LongTakesValue(manifest, cleanArgName, rest)
              THEN /\ parsed' = Put(parsed, cleanArgName, Str(Head(rest)))
                   /\ args' = Tail(rest)
                   /\ roles' = roles \o <<"option", "value">>
                   /\ UNCHANGED << error, pc >>
              ELSE /\ parsed' = Put(parsed, cleanArgName, Bool(TRUE))
                   /\ args' = rest
                   /\ roles' = Append(roles, "option")
                   /\ UNCHANGED << error, pc >>
    /\ UNCHANGED << manifest, argsType, processArgv, out, input, hiddenKeys, positional, idx >>

\* line 157: the name of a long option with an affixed value
AffixedName(a, equalsIndex) == Slice(a, 2, equalsIndex)

\* A variant of AffixedValue that slices from the '=' itself.
AffixedValue_KeepsEquals(a, equalsIndex) == SliceFrom(a, equalsIndex)

\* line 163: the affixed value
AffixedValue(a, equalsIndex) == SliceFrom(a, equalsIndex + 1)

\* lines 156-164: a long option with an affixed value
LongOptAffixed ==
    /\ pc = "loop" /\ Len(args) > 0
    /\ isLongOpt(Head(args)) /\ IndexOf(Head(args), "=") # -1
    /\ LET equalsIndex  == IndexOf(Head(args), "=")
           cleanArgName == AffixedName(Head(args), equalsIndex)
       IN  /\ arg' = Head(args)
           /\ args' = Tail(args)
           /\ roles' = Append(roles, "option")
           /\ IF ~isValidOptName(cleanArgName)
              THEN /\ Throw(UserError("E_INVALID_OPT_NAME"))
                   /\ UNCHANGED parsed
              ELSE /\ parsed' = Put(parsed, cleanArgName,
                                    Str(AffixedValue(Head(args), equalsIndex)))
                   /\ UNCHANGED << error, pc >>
    /\ UNCHANGED << manifest, argsType, processArgv, out, input, hiddenKeys, positional, idx >>

\* A variant of ShortTakesValue that lets any flag of the group take the value.
ShortTakesValue_AnyFlag(m, a, i, q) ==
    /\ Len(q) > 0 /\ ~isOpt(q[1])
    /\ ~IsBooleanOpt(m, << a[i + 1] >>)

\* line 173: the next argument is taken as the value of the flag at index i
ShortTakesValue(m, a, i, q) ==
    /\ i = Len(a) - 1
    /\ Len(q) > 0 /\ ~isOpt(q[1])
    /\ ~IsBooleanOpt(m, << a[i + 1] >>)

RECURSIVE ShortFlags(_, _, _, _, _)
\* lines 167-177: the loop over the flags of a group, from index i on, with the
\* object p and the queue q; what it leaves, and whether it threw
ShortFlags(m, a, i, p, q) ==
    IF i >= Len(a)
    THEN [parsed |-> p, args |-> q, threw |-> FALSE]
    ELSE LET flag == a[i + 1]
         IN  IF ~isFlagChar(flag)
             THEN [parsed |-> p, args |-> q, threw |-> TRUE]
             ELSE IF ShortTakesValue(m, a, i, q)
             THEN ShortFlags(m, a, i + 1, Put(p, << flag >>, Str(Head(q))), Tail(q))
             ELSE ShortFlags(m, a, i + 1, Put(p, << flag >>, Bool(TRUE)), q)

\* lines 165-177: a short option group
ShortOptGroup ==
    /\ pc = "loop" /\ Len(args) > 0
    /\ ~isLongOpt(Head(args)) /\ isShortOpt(Head(args))
    /\ LET r == ShortFlags(manifest, Head(args), 1, parsed, Tail(args))
       IN  /\ arg' = Head(args)
           /\ parsed' = r.parsed
           /\ args' = r.args
           /\ roles' = IF Len(r.args) < Len(args) - 1
                       THEN roles \o <<"option", "value">>
                       ELSE Append(roles, "option")
           /\ IF r.threw
              THEN Throw(UserError("E_INVALID_OPT_NAME"))
              ELSE UNCHANGED << error, pc >>
    /\ UNCHANGED << manifest, argsType, processArgv, out, input, hiddenKeys, positional, idx >>

\* A variant of PositionalArg that reads args[0] and does not shift it.
PositionalArg_NoShift ==
    /\ pc = "loop" /\ Len(args) > 0
    /\ ~isLongOpt(Head(args)) /\ ~isShortOpt(Head(args))
    /\ arg' = Head(args)
    /\ UNCHANGED << manifest, argsType, processArgv, out, input, args, parsed,
                    hiddenKeys, positional, roles, idx, error, pc >>

\* A variant of PositionalArg that puts the argument at the front of the list.
PositionalArg_Unshift ==
    /\ pc = "loop" /\ Len(args) > 0
    /\ ~isLongOpt(Head(args)) /\ ~isShortOpt(Head(args))
    /\ arg' = Head(args)
    /\ args' = Tail(args)
    /\ positional' = << Head(args) >> \o positional
    /\ roles' = Append(roles, "positional")
    /\ UNCHANGED << manifest, argsType, processArgv, out, input, parsed, hiddenKeys, idx, error, pc >>

\* lines 178-181: a positional argument
PositionalArg ==
    /\ pc = "loop" /\ Len(args) > 0
    /\ ~isLongOpt(Head(args)) /\ ~isShortOpt(Head(args))
    /\ arg' = Head(args)
    /\ args' = Tail(args)
    /\ positional' = Append(positional, Head(args))
    /\ roles' = Append(roles, "positional")
    /\ UNCHANGED << manifest, argsType, processArgv, out, input, parsed, hiddenKeys, idx, error, pc >>

\* A variant of HasUnknownOpt that looks for manifest keys missing from parsed.
HasUnknownOpt_Reversed(m, p) ==
    \E i \in 1..Len(m.entries) : m.entries[i].name \notin DOMAIN p

\* A variant of HasUnknownOpt that runs with the positional index keys in place.
HasUnknownOpt_CountsPositionals(m, p) ==
    \/ \E name \in DOMAIN p : ~HasOwn(m, name)
    \/ \E i \in 0..(Len(positional) - 1) : ~HasOwn(m, IndexKey(i))

\* lines 186-189: some key of parsed is not a key of the manifest
HasUnknownOpt(m, p) == \E name \in DOMAIN p : ~HasOwn(m, name)

\* lines 137, 184-189: the loop ends; the check for unknown options
CheckUnknown ==
    /\ pc = "loop" /\ Len(args) = 0
    /\ IF manifest.kind = "null" /\ DOMAIN parsed # {}
       THEN Throw(TypeError)                \* null.hasOwnProperty
       ELSE IF manifest.given /\ HasUnknownOpt(manifest, parsed)
       THEN Throw(UserError("E_UNKNOWN_OPT"))
       ELSE pc' = "insert" /\ UNCHANGED error
    /\ UNCHANGED << manifest, argsType, processArgv, out, input, args, parsed, hiddenKeys, positional,
                    arg, roles, idx >>

RECURSIVE InsertIndexed(_, _, _)
\* lines 199-200: parsed[i] = positional[i] for i from `from` on
InsertIndexed(p, list, from) ==
    IF from >= Len(list) THEN p
    ELSE InsertIndexed(Put(p, IndexKey(from), Str(list[from + 1])), list, from + 1)

\* lines 191-201: the positional arguments go into parsed
InsertPositional ==
    /\ pc = "insert"
    /\ IF Len(positional) > 0
       THEN /\ parsed' = InsertIndexed(Put(parsed, KeyUnderscore, List(positional)),
                                       positional, 0)
            /\ hiddenKeys' = hiddenKeys \cup { KeyUnderscore }
       ELSE UNCHANGED << parsed, hiddenKeys >>
    /\ pc' = "manifest"
    /\ UNCHANGED << manifest, argsType, processArgv, out, input, args, positional, arg, roles, idx, error >>

\* A variant of ValidateManifest that goes on to the coercion loop unchecked.
ValidateManifest_Unchecked ==
    /\ pc = "manifest" /\ manifest.given
    /\ pc' = "coerce" /\ idx' = 1
    /\ UNCHANGED << manifest, argsType, processArgv, out, input, args, parsed, hiddenKeys,
                    positional, arg, roles, error >>

\* lines 203-204: validateManifest(manifest)
ValidateManifest ==
    /\ pc = "manifest" /\ manifest.given
    /\ IF manifest.kind \in {"number", "string"}
       THEN Throw(DeveloperErrorAt("manifest")) /\ UNCHANGED idx     \* line 80
       ELSE IF manifest.kind = "null"
       THEN Throw(TypeError) /\ UNCHANGED idx          \* Object.entries(null)
       ELSE IF ManifestInvalid(manifest)
       THEN Throw(DeveloperErrorAt(ManifestFault(manifest))) /\ UNCHANGED idx
       ELSE pc' = "coerce" /\ idx' = 1 /\ UNCHANGED error
    /\ UNCHANGED << manifest, argsType, processArgv, out, input, args, parsed, hiddenKeys, positional,
                    arg, roles >>

\* A variant of Cast that converts between true and "true" instead of throwing.
Cast_Converts(opt, value) ==
    IF opt.type.name = "boolean"
    THEN [threw |-> FALSE, value |-> Bool(value = Bool(TRUE) \/ value = Str(<<"t","r","u","e">>))]
    ELSE IF opt.type.name = "string"
    THEN [threw |-> FALSE, value |-> Str(ToJSString(value))]
    ELSE LET v == IF opt.type.name = "int" THEN ParseInt(value)
                  ELSE IF opt.type.name = "float" THEN ParseFloat(value)
                  ELSE value
         IN  [threw |-> TypeOf(v) # "number" \/ IsNaN(v), value |-> v]

\* A variant of Cast that checks the number and keeps the raw value.
Cast_KeepsRaw(opt, value) ==
    IF opt.type.name \in {"boolean", "string"}
    THEN [threw |-> TypeOf(value) # opt.type.name, value |-> value]
    ELSE LET v == IF opt.type.name = "int" THEN ParseInt(value)
                  ELSE IF opt.type.name = "float" THEN ParseFloat(value)
                  ELSE value
         IN  [threw |-> TypeOf(v) # "number" \/ IsNaN(v), value |-> value]

\* lines 212-223: the value cast to the option's type, or that the cast throws
Cast(opt, value) ==
    IF opt.type.name \in {"boolean", "string"}
    THEN [threw |-> TypeOf(value) # opt.type.name, value |-> value]
    ELSE LET v == IF opt.type.name = "int" THEN ParseInt(value)
                  ELSE IF opt.type.name = "float" THEN ParseFloat(value)
                  ELSE value
         IN  [threw |-> TypeOf(v) # "number" \/ IsNaN(v), value |-> v]

\* lines 225-227: the allow list rejects the value
NotAllowed(opt, value) == opt.allow.defined /\ ~Includes(opt.allow, value)

\* lines 206-236: one entry of the manifest; out keeps the option as the
\* message of a UserError renders it
CoerceEntry ==
    /\ pc = "coerce" /\ idx <= Len(ObjectEntries(manifest))
    /\ LET name     == ObjectEntries(manifest)[idx].name
           opt      == ObjectEntries(manifest)[idx].opt
           rawValue == Get(parsed, name)
           cast     == Cast(opt, rawValue)
       IN  IF rawValue # Undefined
           THEN IF cast.threw \/ NotAllowed(opt, cast.value)
                THEN /\ Throw(UserError("E_INVALID_OPT_VALUE"))
                     /\ out' = renderOptionName(name, opt)
                     /\ UNCHANGED << parsed, idx >>
                ELSE IF name \in hiddenKeys
                THEN Throw(TypeError) /\ UNCHANGED << parsed, idx, out >>
                ELSE /\ parsed' = Put(parsed, name, cast.value)
                     /\ idx' = idx + 1
                     /\ UNCHANGED << error, pc, out >>
           ELSE IF opt.default # Undefined
                THEN /\ parsed' = Put(parsed, name, opt.default)
                     /\ idx' = idx + 1
                     /\ UNCHANGED << error, pc, out >>
                ELSE IF opt.required
                THEN /\ Throw(UserError("E_MISSING_OPT"))
                     /\ out' = renderOptionName(name, opt)
                     /\ UNCHANGED << parsed, idx >>
                ELSE idx' = idx + 1 /\ UNCHANGED << parsed, error, pc, out >>
    /\ UNCHANGED << manifest, argsType, processArgv, input, args, hiddenKeys,
                    positional, arg, roles >>

\* line 239: return parsed
Return ==
    /\ \/ pc = "manifest" /\ ~manifest.given
       \/ pc = "coerce" /\ idx > Len(ObjectEntries(manifest))
    /\ pc' = "returned"
    /\ UNCHANGED << manifest, argsType, processArgv, out, input, args, parsed, hiddenKeys, positional,
                    arg, roles, idx, error >>

Next ==
    \/ LongOpt
    \/ LongOptAffixed
    \/ ShortOptGroup
    \/ PositionalArg
    \/ CheckUnknown
    \/ InsertPositional
    \/ ValidateManifest
    \/ CoerceEntry
    \/ Return

Spec == Init /\ [][Next]_vars

NextCall == Enter \/ Next

SpecCall == InitCall /\ [][NextCall]_vars

SpecSyntax == InitSyntax /\ [][CallSyntax]_vars

\* parse runs to completion: a step that can be taken is taken.
SpecLive == InitLive /\ [][Next]_vars /\ WF_vars(Next)

(***************************************************************************)
(* Vocabulary of the properties, read off the tokens themselves.           *)
(***************************************************************************)
BeginsWithDash(tok) == Len(tok) >= 1 /\ tok[1] = "-"

IsLongToken(tok) == Len(tok) >= 2 /\ tok[1] = "-" /\ tok[2] = "-"

IsShortToken(tok) == BeginsWithDash(tok) /\ ~IsLongToken(tok)

HasEquals(tok) == \E i \in 1..Len(tok) : tok[i] = "="

\* The position of the first '=' of a token that has one.
FirstEquals(tok) ==
    CHOOSE k \in 1..Len(tok) : tok[k] = "=" /\ \A j \in 1..(k - 1) : tok[j] # "="

Letters == LowerCase \cup UpperCase

AllLetters(tok) == \A i \in 2..Len(tok) : tok[i] \in Letters

\* The manifest declares the option `name` with type boolean.
DeclaredBoolean(name) ==
    /\ manifest.given
    /\ \E i \in 1..Len(manifest.entries) :
          /\ manifest.entries[i].name = name
          /\ manifest.entries[i].opt.type = Type("boolean")

\* The loop is about to pop the token at the front of the queue.
Popping == pc = "loop" /\ Len(args) > 0

(***************************************************************************)
(* C1. With no manifest, popping a long option --name that has no '=':     *)
(* when another token remains and does not begin with '-', that token is   *)
(* removed too and becomes the string value of name; otherwise name is set *)
(* to true and no further token is removed.                                *)
(***************************************************************************)
C1_LongOptLookahead ==
    [][ ( /\ Popping /\ ~manifest.given
          /\ IsLongToken(Head(args)) /\ ~HasEquals(Head(args))
          /\ pc' # "thrown" )
        => LET name == SubSeq(Head(args), 3, Len(Head(args)))
               rest == Tail(args)
           IN  IF Len(rest) > 0 /\ ~BeginsWithDash(rest[1])
               THEN /\ args' = Tail(rest)
                    /\ name \in DOMAIN parsed'
                    /\ parsed'[name] = Str(rest[1])
               ELSE /\ args' = rest
                    /\ name \in DOMAIN parsed'
                    /\ parsed'[name] = Bool(TRUE) ]_vars

\* --a b was parsed without a manifest: a holds "b", and --a - left a true
C1_Witness ==
    /\ ~manifest.given /\ pc = "loop"
    /\ input = << <<"-","-","a">>, <<"b">>, <<"-","-","c","-","1">> >>
    /\ arg = <<"-","-","c","-","1">>
    /\ args = << >>
    /\ parsed[<<"a">>] = Str(<<"b">>)
    /\ parsed[<<"c","-","1">>] = Bool(TRUE)

(***************************************************************************)
(* C2. Popping a long option that contains '=': the name is the text       *)
(* between -- and the first '=', the value is all that follows the first   *)
(* '=' as a string (never true), and only this one token is removed, with  *)
(* or without a manifest.                                                  *)
(***************************************************************************)
C2_AffixedValue ==
    [][ ( /\ Popping
          /\ IsLongToken(Head(args)) /\ HasEquals(Head(args))
          /\ pc' # "thrown" )
        => LET tok   == Head(args)
               k     == FirstEquals(tok)
               name  == SubSeq(tok, 3, k - 1)
               value == SubSeq(tok, k + 1, Len(tok))
           IN  /\ tok = <<"-", "-">> \o name \o <<"=">> \o value
               /\ args' = Tail(args)
               /\ DOMAIN parsed' = (DOMAIN parsed) \cup {name}
               /\ parsed'[name] = Str(value)
               /\ parsed'[name] # Bool(TRUE)
               /\ \A other \in (DOMAIN parsed) \ {name} :
                     parsed'[other] = parsed[other] ]_vars

\* --a=b= then b: a holds "b=", and b was not taken as a value
C2_Witness ==
    /\ pc = "loop"
    /\ input = << <<"-","-","a","=","b","=">>, <<"b">> >>
    /\ arg = <<"-","-","a","=","b","=">>
    /\ args = << <<"b">> >>
    /\ parsed[<<"a">>] = Str(<<"b","=">>)

(***************************************************************************)
(* C3. Popping a short group -c1..cn of letters: every flag before the     *)
(* last is set to true (a flag that is also the last one gets the last     *)
(* one's value), and the last flag takes the next token, which is removed, *)
(* when there is one, it does not begin with '-' and the manifest does not *)
(* declare the last flag boolean; otherwise the last flag is true too.     *)
(***************************************************************************)
C3_ShortGroup ==
    [][ ( /\ Popping
          /\ IsShortToken(Head(args)) /\ Len(Head(args)) >= 2
          /\ AllLetters(Head(args)) )
        => LET tok   == Head(args)
               n     == Len(tok)
               last  == << tok[n] >>
               rest  == Tail(args)
               takes == /\ Len(rest) > 0 /\ ~BeginsWithDash(rest[1])
                        /\ ~DeclaredBoolean(last)
           IN  /\ pc' = "loop"
               /\ \A i \in 2..n : << tok[i] >> \in DOMAIN parsed'
               /\ \A i \in 2..(n - 1) :
                     tok[i] # tok[n] => parsed'[<< tok[i] >>] = Bool(TRUE)
               /\ IF takes
                  THEN parsed'[last] = Str(rest[1]) /\ args' = Tail(rest)
                  ELSE parsed'[last] = Bool(TRUE) /\ args' = rest ]_vars

\* -aba b: b is true and a, the last flag, holds "b"
C3_Witness ==
    /\ pc = "loop"
    /\ input = << <<"-","a","b","a">>, <<"b">> >>
    /\ arg = <<"-","a","b","a">>
    /\ args = << >>
    /\ parsed[<<"b">>] = Bool(TRUE)
    /\ parsed[<<"a">>] = Str(<<"b">>)

(***************************************************************************)
(* More vocabulary: what a token is, by its own characters.                *)
(***************************************************************************)
\* The name part of a long option token.
LongName(tok) ==
    IF HasEquals(tok) THEN SubSeq(tok, 3, FirstEquals(tok) - 1)
    ELSE SubSeq(tok, 3, Len(tok))

\* The option names an option token sets.
NamesSetBy(tok) ==
    IF IsLongToken(tok) THEN { LongName(tok) }
    ELSE { << tok[i] >> : i \in 2..Len(tok) }

\* A name obeys ^[A-Za-z][A-Za-z0-9-]*$.
MatchesNameRule(name) ==
    /\ name # << >>
    /\ name[1] \in Letters
    /\ \A i \in 2..Len(name) : name[i] \in Letters \cup Digits \cup {"-"}

\* A bare occurrence of an option the manifest declares boolean.
BareBoolean(tok) ==
    \/ IsLongToken(tok) /\ ~HasEquals(tok) /\ DeclaredBoolean(LongName(tok))
    \/ /\ IsShortToken(tok) /\ Len(tok) >= 2 /\ AllLetters(tok)
       /\ DeclaredBoolean(<< tok[Len(tok)] >>)

\* The option a bare occurrence is an occurrence of.
BareName(tok) ==
    IF IsLongToken(tok) THEN LongName(tok) ELSE << tok[Len(tok)] >>

(***************************************************************************)
(* C4. A bare occurrence of an option the manifest declares boolean (as    *)
(* --name, or as the last flag of a short group) removes only its own      *)
(* token and sets the option to true; the token that follows, when it does *)
(* not begin with '-', becomes a positional argument.                      *)
(***************************************************************************)
C4_BooleanNeverConsumes ==
    /\ [][ (Popping /\ BareBoolean(Head(args)))
           => /\ args' = Tail(args)
              /\ pc' = "loop"
              /\ BareName(Head(args)) \in DOMAIN parsed'
              /\ parsed'[BareName(Head(args))] = Bool(TRUE) ]_vars
    /\ [](\A i \in 1..(Len(roles) - 1) :
             (BareBoolean(input[i]) /\ ~BeginsWithDash(input[i + 1]))
             => /\ roles[i + 1] = "positional"
                /\ \E j \in 1..Len(positional) : positional[j] = input[i + 1])

\* { a: boolean } with --a b returned { a: true, 0: 'b' }
C4_Witness ==
    /\ pc = "returned"
    /\ manifest = Manifest(<< Entry(KeyA, Plain("boolean")) >>)
    /\ input = << <<"-","-","a">>, <<"b">> >>
    /\ parsed[<<"a">>] = Bool(TRUE)
    /\ parsed[<<"0">>] = Str(<<"b">>)

(***************************************************************************)
(* C5. While and after the tokens are consumed, every key holds the value  *)
(* given by the last option token that set it, whatever the form of that   *)
(* token and of the earlier ones.                                          *)
(***************************************************************************)
\* The removed option tokens that set the key k.
Occurrences(k) ==
    { i \in 1..Len(roles) : roles[i] = "option" /\ k \in NamesSetBy(input[i]) }

LastOccurrence(k) ==
    CHOOSE i \in Occurrences(k) : \A j \in Occurrences(k) : j <= i

\* The value the option token at position i gives the key k.
ValueGiven(i, k) ==
    LET tok == input[i]
    IN  IF IsLongToken(tok) /\ HasEquals(tok)
        THEN Str(SubSeq(tok, FirstEquals(tok) + 1, Len(tok)))
        ELSE IF /\ IsLongToken(tok) \/ k = << tok[Len(tok)] >>
                /\ i < Len(roles) /\ roles[i + 1] = "value"
        THEN Str(input[i + 1])
        ELSE Bool(TRUE)

C5_LastOccurrenceWins ==
    pc \in {"loop", "insert"}
    => \A k \in DOMAIN parsed :
          /\ Occurrences(k) # {}
          /\ parsed[k] = ValueGiven(LastOccurrence(k), k)

\* -a --a b: the flag a, first true, holds "b"
C5_Witness ==
    /\ pc = "insert"
    /\ input = << <<"-","a">>, <<"-","-","a">>, <<"b">> >>
    /\ parsed[<<"a">>] = Str(<<"b">>)

(***************************************************************************)
(* C6. After a successful parse without a manifest, the list under _ is    *)
(* the tokens that were removed neither as options nor as option values,   *)
(* in their order; key i holds the i-th of them; and _ is not one of the   *)
(* enumerable keys.                                                        *)
(***************************************************************************)
RECURSIVE PositionalsUpTo(_)
PositionalsUpTo(j) ==
    IF j = 0 THEN << >>
    ELSE IF roles[j] \notin {"option", "value"}
    THEN Append(PositionalsUpTo(j - 1), input[j])
    ELSE PositionalsUpTo(j - 1)

EnumerableKeys == (DOMAIN parsed) \ hiddenKeys

C6_PositionalList ==
    (pc = "returned" /\ ~manifest.given)
    => LET pos == PositionalsUpTo(Len(roles))
       IN  /\ Len(roles) = Len(input)
           /\ pos # << >> =>
                 /\ KeyUnderscore \in DOMAIN parsed
                 /\ parsed[KeyUnderscore] = List(pos)
           /\ \A i \in 0..(Len(pos) - 1) :
                 /\ IndexKey(i) \in EnumerableKeys
                 /\ parsed[IndexKey(i)] = Str(pos[i + 1])
           /\ KeyUnderscore \notin EnumerableKeys

\* b --a= 1.5 returned { 0: 'b', 1: '1.5', a: '' } with _ = ['b', '1.5']
C6_Witness ==
    /\ pc = "returned" /\ ~manifest.given
    /\ input = << <<"b">>, <<"-","-","a","=">>, <<"1",".","5">> >>
    /\ parsed[KeyUnderscore] = List(<< <<"b">>, <<"1",".","5">> >>)
    /\ parsed[<<"1">>] = Str(<<"1",".","5">>)

(***************************************************************************)
(* C7. With a manifest, once the tokens are consumed without error, parse  *)
(* fails with E_UNKNOWN_OPT exactly when some option token set a name that *)
(* is not a key of the manifest; positional tokens play no part in it.     *)
(***************************************************************************)
ManifestKeys == { manifest.entries[i].name : i \in 1..Len(manifest.entries) }

C7_UnknownOption ==
    ( /\ manifest.given
      /\ pc # "loop"
      /\ error # UserError("E_INVALID_OPT_NAME") )
    => ( error = UserError("E_UNKNOWN_OPT")
         <=> \E i \in 1..Len(roles) :
                /\ roles[i] = "option"
                /\ \E k \in NamesSetBy(input[i]) : k \notin ManifestKeys )

\* { a: boolean } with b --a --c-1: the undeclared positional b is accepted
\* and the undeclared option c-1 is not
C7_Witness ==
    /\ pc = "thrown"
    /\ error = UserError("E_UNKNOWN_OPT")
    /\ manifest = Manifest(<< Entry(KeyA, Plain("boolean")) >>)
    /\ input = << <<"b">>, <<"-","-","a">>, <<"-","-","c","-","1">> >>
    /\ positional = << <<"b">> >>
    /\ DOMAIN parsed = { <<"a">>, <<"c","-","1">> }

(***************************************************************************)
(* C8. Popping an option token fails with E_INVALID_OPT_NAME exactly when  *)
(* it is a long option whose name (after --, before the first '=') does    *)
(* not obey ^[A-Za-z][A-Za-z0-9-]*$, or a short group with a character     *)
(* that is not a letter; and no step of the loop adds a key that breaks    *)
(* the name rule.                                                          *)
(***************************************************************************)
BadOptionToken(tok) ==
    IF IsLongToken(tok) THEN ~MatchesNameRule(LongName(tok))
    ELSE \E i \in 2..Len(tok) : tok[i] \notin Letters

C8_NameChecked ==
    [][ Popping
        => /\ BeginsWithDash(Head(args))
              => ( BadOptionToken(Head(args))
                   <=> (pc' = "thrown" /\ error' = UserError("E_INVALID_OPT_NAME")) )
           /\ \A k \in (DOMAIN parsed') \ (DOMAIN parsed) : MatchesNameRule(k) ]_vars

\* -a2 failed on the character 2, after the flag a was set
C8_Witness ==
    /\ pc = "thrown"
    /\ error = UserError("E_INVALID_OPT_NAME")
    /\ arg = <<"-","a","2">>
    /\ DOMAIN parsed = { <<"a">> }

(***************************************************************************)
(* C9. Coercing an entry of type int that has a value and no allow list:   *)
(* the value becomes the integer the parser obtains, a fractional part     *)
(* being cut off toward zero ('1.5' gives 1, '-1.5' gives -1), and parse   *)
(* fails with E_INVALID_OPT_VALUE exactly when the parser yields NaN; the  *)
(* same for an index key declared int.                                     *)
(***************************************************************************)
\* The loop over the manifest is about to handle an entry.
Coercing == pc = "coerce" /\ idx <= Len(ObjectEntries(manifest))

CurrentName == ObjectEntries(manifest)[idx].name

CurrentOpt == ObjectEntries(manifest)[idx].opt

\* A string written as digits, with an optional sign and an optional fraction.
IsDecimal(s) ==
    LET u == IF Len(s) >= 1 /\ s[1] = "-" THEN Tail(s) ELSE s
    IN  /\ Len(u) >= 1 /\ u[1] \in Digits
        /\ \A i \in 1..Len(u) : u[i] \in Digits \cup {"."}
        /\ Cardinality({ i \in 1..Len(u) : u[i] = "." }) <= 1

\* The number n/d cut off toward zero.
TruncTowardZero(n, d) == IF n >= 0 THEN n \div d ELSE -((-n) \div d)

C9_IntCoercion ==
    [][ ( /\ Coercing
          /\ CurrentOpt.type = Type("int") /\ ~CurrentOpt.allow.defined
          /\ Get(parsed, CurrentName) # Undefined )
        => LET raw == Get(parsed, CurrentName)
               int == ParseInt(raw)
           IN  /\ (pc' = "thrown") <=> (int = NaN)
               /\ pc' = "thrown" => error' = UserError("E_INVALID_OPT_VALUE")
               /\ pc' # "thrown" => parsed'[CurrentName] = int
               /\ (raw.kind = "string" /\ IsDecimal(raw.s))
                  => /\ pc' # "thrown"
                     /\ parsed'[CurrentName].kind = "number"
                     /\ parsed'[CurrentName].d = 1
                     /\ parsed'[CurrentName].n =
                           TruncTowardZero(ParseFloat(raw).n, ParseFloat(raw).d)
               /\ raw = Str(<<"1",".","5">>) => parsed'[CurrentName] = Num(1, 1)
               /\ raw = Str(<<"-","1",".","5">>) => parsed'[CurrentName] = Num(-1, 1) ]_vars

\* { a: int, b: boolean, 0: int } with --a=-1.5 1.5 returned { a: -1, 0: 1 }
C9_Witness ==
    /\ pc = "returned"
    /\ input = << <<"-","-","a","=","-","1",".","5">>, <<"1",".","5">> >>
    /\ HasOwn(manifest, Key0)
    /\ parsed[<<"a">>] = Num(-1, 1)
    /\ parsed[<<"0">>] = Num(1, 1)

(***************************************************************************)
(* C10. Coercing an entry of type boolean or string that has a value: the  *)
(* value is never converted; parse fails with E_INVALID_OPT_VALUE when a   *)
(* string option holds true (a bare flag) or a boolean option holds a      *)
(* string, and otherwise the key keeps the value it had (an allow list,    *)
(* when declared, must still admit it).                                    *)
(***************************************************************************)
C10_NoConversion ==
    [][ ( /\ Coercing
          /\ CurrentOpt.type \in { Type("boolean"), Type("string") }
          /\ Get(parsed, CurrentName) # Undefined )
        => LET raw      == Get(parsed, CurrentName)
               mismatch == \/ CurrentOpt.type = Type("string") /\ raw = Bool(TRUE)
                           \/ CurrentOpt.type = Type("boolean") /\ raw.kind = "string"
               rejected == /\ CurrentOpt.allow.defined
                           /\ \A i \in 1..Len(CurrentOpt.allow.items) :
                                 CurrentOpt.allow.items[i] # raw
           IN  /\ (pc' = "thrown") <=> (mismatch \/ rejected)
               /\ pc' = "thrown" => error' = UserError("E_INVALID_OPT_VALUE")
               /\ pc' # "thrown" => parsed'[CurrentName] = raw ]_vars

\* { a: boolean } with --a=b= failed: a held the string "b="
C10_Witness ==
    /\ pc = "thrown"
    /\ error = UserError("E_INVALID_OPT_VALUE")
    /\ manifest = Manifest(<< Entry(KeyA, Plain("boolean")) >>)
    /\ parsed[<<"a">>] = Str(<<"b","=">>)

(***************************************************************************)
(* Vocabulary of the schema properties.                                    *)
(***************************************************************************)
\* parse has ended, by return or by throw.
Terminated == pc \in {"returned", "thrown"}

\* The manifest argument is an object literal.
ObjectManifest == manifest.kind = "object"

\* The value v is of the declared type t: a boolean for boolean, a string for
\* string, a number for int and for float.
MatchesType(v, t) ==
    \/ t = "boolean" /\ v.kind = "boolean"
    \/ t = "string" /\ v.kind = "string"
    \/ t \in {"int", "float"} /\ v.kind = "number"

\* The value a captured raw value denotes for an option of type t: the string
\* itself, or the number a decimal numeral stands for.
Denoted(raw, t) ==
    IF t \in {"int", "float"} /\ raw.kind = "string" /\ IsDecimal(raw.s)
    THEN ParseFloat(raw)
    ELSE raw

(***************************************************************************)
(* C11. Coercing an entry that has an allow list and a captured value:     *)
(* when the coerced value is not a member of the list, parse fails with    *)
(* E_INVALID_OPT_VALUE; when the value supplied is a member of the list    *)
(* (the string itself, or the numeral of a listed number), parse does not  *)
(* fail on the entry and the key holds that member.                        *)
(***************************************************************************)
C11_AllowListLaw ==
    [][ ( /\ Coercing
          /\ CurrentOpt.allow.defined
          /\ Get(parsed, CurrentName) # Undefined )
        => LET raw    == Get(parsed, CurrentName)
               cast   == Cast(CurrentOpt, raw)
               member == Denoted(raw, CurrentOpt.type.name)
           IN  /\ (cast.threw \/ ~Includes(CurrentOpt.allow, cast.value))
                  => (pc' = "thrown" /\ error' = UserError("E_INVALID_OPT_VALUE"))
               /\ Includes(CurrentOpt.allow, member)
                  => (pc' # "thrown" /\ parsed'[CurrentName] = member) ]_vars

\* The entry obeys the schema rules as the specification words them.
SchemaValid(opt) ==
    /\ opt.isObject
    /\ opt.type.defined /\ opt.type.name \in ValidTypes
    /\ opt.default # Undefined => MatchesType(opt.default, opt.type.name)
    /\ opt.allow.defined
       => /\ opt.allow.isArray /\ Len(opt.allow.items) > 0
          /\ opt.type.name # "boolean"
          /\ \A i \in 1..Len(opt.allow.items) :
                MatchesType(opt.allow.items[i], opt.type.name)
          /\ opt.default # Undefined => Includes(opt.allow, opt.default)

\* Every entry of the manifest obeys the schema rules.
SchemaValidManifest ==
    ObjectManifest /\ \A i \in 1..Len(manifest.entries) :
                         SchemaValid(manifest.entries[i].opt)

\* The positional tokens removed so far.
PositionalTokens == PositionalsUpTo(Len(roles))

\* The tokens supplied a value for the manifest key k.
Supplied(k) ==
    \/ Occurrences(k) # {}
    \/ \E i \in 0..(Len(PositionalTokens) - 1) : IndexKey(i) = k
    \/ k = KeyUnderscore /\ PositionalTokens # << >>

\* The value the tokens supplied for the key k, before coercion.
SuppliedValue(k) ==
    IF Occurrences(k) # {} THEN ValueGiven(LastOccurrence(k), k)
    ELSE IF k = KeyUnderscore THEN List(PositionalTokens)
    ELSE Str(PositionalTokens[
             1 + CHOOSE i \in 0..(Len(PositionalTokens) - 1) : IndexKey(i) = k])

\* parse ended otherwise than by rejecting the arguments, a token, an unknown
\* option or a supplied value.
InputAccepted ==
    /\ Terminated
    /\ argsType = "array"
    /\ error.name # "TypeError"
    /\ error.code \notin {"E_INVALID_OPT_NAME", "E_UNKNOWN_OPT", "E_INVALID_OPT_VALUE"}

(***************************************************************************)
(* C12. When parse ends on a manifest that obeys the schema rules and no   *)
(* token or supplied value was rejected: if some entry without a supplied  *)
(* value has no default and is required, parse failed with E_MISSING_OPT;  *)
(* otherwise parse returned, every entry without a supplied value holds    *)
(* its default when it declares one (required or not) and is absent when   *)
(* it declares none, and every entry with a supplied value holds the       *)
(* coerced supplied value, never the default.                              *)
(***************************************************************************)
C12_DefaultsAndRequired ==
    (InputAccepted /\ SchemaValidManifest)
    => LET es    == manifest.entries
           unset == { i \in 1..Len(es) : ~Supplied(es[i].name) }
       IN  IF \E i \in unset : es[i].opt.default = Undefined /\ es[i].opt.required
           THEN pc = "thrown" /\ error = UserError("E_MISSING_OPT")
           ELSE /\ pc = "returned"
                /\ \A i \in unset :
                      IF es[i].opt.default # Undefined
                      THEN /\ es[i].name \in DOMAIN parsed
                           /\ parsed[es[i].name] = es[i].opt.default
                      ELSE es[i].name \notin DOMAIN parsed
                /\ \A i \in (1..Len(es)) \ unset :
                      /\ es[i].name \in DOMAIN parsed
                      /\ parsed[es[i].name] =
                            Cast(es[i].opt, SuppliedValue(es[i].name)).value

\* validateManifest(manifest) has run on an object manifest: the arguments,
\* the tokens and the unknown-option check let parse reach it.
Validated ==
    /\ ObjectManifest /\ argsType = "array"
    /\ \/ pc \in {"coerce", "returned"}
       \/ pc = "thrown" /\ error.code \notin {"E_INVALID_OPT_NAME", "E_UNKNOWN_OPT"}

\* The entry declares one of the four types and a default.
TypedDefault(opt) ==
    /\ opt.isObject
    /\ opt.type.defined /\ opt.type.name \in ValidTypes
    /\ opt.default # Undefined

(***************************************************************************)
(* C13. Once validateManifest has run: an entry whose default does not     *)
(* match its declared type (a boolean for boolean, a string for string, a  *)
(* number for int and for float) made parse raise DeveloperError, and the  *)
(* DeveloperError for a default of the wrong type is raised only when some *)
(* entry's default does not match its declared type.                       *)
(***************************************************************************)
C13_DefaultTypeRule ==
    Validated
    => LET mismatch == \E i \in 1..Len(manifest.entries) :
                          /\ TypedDefault(manifest.entries[i].opt)
                          /\ ~MatchesType(manifest.entries[i].opt.default,
                                          manifest.entries[i].opt.type.name)
       IN  /\ mismatch => error.name = "DeveloperError"
           /\ error = DeveloperErrorAt("default-type") => mismatch

\* The entry's allow list breaks one of the rules for allow lists.
AllowViolation(opt) ==
    /\ opt.isObject /\ opt.allow.defined
    /\ \/ ~opt.allow.isArray
       \/ Len(opt.allow.items) = 0
       \/ opt.type = Type("boolean")
       \/ /\ opt.type.name \in {"string", "int", "float"}
          /\ \E i \in 1..Len(opt.allow.items) :
                ~MatchesType(opt.allow.items[i], opt.type.name)
       \/ opt.default # Undefined /\ ~Includes(opt.allow, opt.default)

\* The throw statements of the allow-list rules.
AllowErrors ==
    { DeveloperErrorAt(m) :
        m \in {"allow-shape", "allow-boolean", "allow-value", "allow-default"} }

(***************************************************************************)
(* C14. Once validateManifest has run: an entry whose allow list is not an *)
(* array, is empty, goes with type boolean, holds a value of another kind  *)
(* than the declared type, or lacks the declared default made parse raise  *)
(* DeveloperError; and the DeveloperError of an allow-list rule is raised  *)
(* only when some entry's allow list breaks one of these rules.            *)
(***************************************************************************)
C14_AllowListRules ==
    Validated
    => LET violation == \E i \in 1..Len(manifest.entries) :
                           AllowViolation(manifest.entries[i].opt)
       IN  /\ violation => error.name = "DeveloperError"
           /\ error \in AllowErrors => violation

\* { a: string, default 'x', allow ['b'] } with --a b: the default is not in
\* the allow list
C14_Witness ==
    /\ pc = "thrown"
    /\ error = DeveloperErrorAt("allow-default")
    /\ input = << <<"-","-","a">>, <<"b">> >>
    /\ parsed[KeyA] = Str(<<"b">>)

\* The entry declares no type, or a type that is none of the four.
TypeViolation(opt) ==
    opt.isObject /\ (~opt.type.defined \/ opt.type.name \notin ValidTypes)

TypelessOnly ==
    /\ ObjectManifest /\ manifest.entries # << >>
    /\ \A i \in 1..Len(manifest.entries) :
          /\ manifest.entries[i].opt.isObject
          /\ ~manifest.entries[i].opt.type.defined
          /\ ~manifest.entries[i].opt.allow.defined

\* Some entry of the manifest is an object without a type.
HasTypeless ==
    /\ ObjectManifest
    /\ \E i \in 1..Len(manifest.entries) :
          /\ manifest.entries[i].opt.isObject
          /\ ~manifest.entries[i].opt.type.defined

SomeBadOption ==
    \E i \in 1..Len(roles) : roles[i] = "option" /\ BadOptionToken(input[i])

\* Some token removed as an option names an option the manifest lacks.
SomeUnknownOption ==
    \E i \in 1..Len(roles) :
       /\ roles[i] = "option"
       /\ \E k \in NamesSetBy(input[i]) : k \notin ManifestKeys

(***************************************************************************)
(* C17 as first stated. Whenever parse ends on an object manifest that     *)
(* violates a schema rule, it has raised DeveloperError, whatever the      *)
(* tokens were.                                                            *)
(***************************************************************************)
C17_ValidatorAlwaysRuns ==
    (Terminated /\ ObjectManifest /\ ~SchemaValidManifest)
    => (pc = "thrown" /\ error.name = "DeveloperError")

(***************************************************************************)
(* C17, amended. The validator runs after consumption and the unknown-     *)
(* option check: when parse ends on an object manifest that violates a     *)
(* schema rule, it has thrown; E_INVALID_OPT_NAME when a token removed as  *)
(* an option breaks the name rule, else E_UNKNOWN_OPT when an option is    *)
(* not a key of the manifest, and DeveloperError in every other case.      *)
(***************************************************************************)
C17_ValidatorAfterTokens ==
    (Terminated /\ ObjectManifest /\ argsType = "array" /\ ~SchemaValidManifest)
    => /\ pc = "thrown"
       /\ IF SomeBadOption THEN error = UserError("E_INVALID_OPT_NAME")
          ELSE IF SomeUnknownOption THEN error = UserError("E_UNKNOWN_OPT")
          ELSE error.name = "DeveloperError" /\ error.code = ""

\* { a: { type: 'string', default: 1 } } with 1.5 --a=b=: both tokens are
\* consumed, then the manifest is refused
C17_Witness ==
    /\ pc = "thrown"
    /\ error = DeveloperErrorAt("default-type")
    /\ manifest = One(KeyA, Opt(Type("string"), Num(1, 1), FALSE, NoAllow))
    /\ input = << <<"1",".","5">>, <<"-","-","a","=","b","=">> >>
    /\ roles = << "positional", "option" >>

(***************************************************************************)
(* C18. Every failure of parse is a DeveloperError, which carries no code, *)
(* or a UserError whose code is one of E_INVALID_OPT_NAME,                 *)
(* E_INVALID_OPT_VALUE, E_MISSING_OPT, E_UNKNOWN_OPT; nothing else is      *)
(* thrown.                                                                 *)
(***************************************************************************)
C18_ErrorKinds ==
    pc = "thrown"
    => \/ error.name = "DeveloperError" /\ error.code = ""
       \/ /\ error.name = "UserError"
          /\ error.code \in { "E_INVALID_OPT_NAME", "E_INVALID_OPT_VALUE",
                              "E_MISSING_OPT", "E_UNKNOWN_OPT" }

(***************************************************************************)
(* C19. When parse ends: if args was given and is no array, parse threw    *)
(* DeveloperError and removed no token; if the manifest was given and is   *)
(* no object (null, a number or a string), parse threw DeveloperError.     *)
(***************************************************************************)
C19_ArgumentChecks ==
    Terminated
    => /\ argsType = "string"
          => /\ pc = "thrown" /\ error.name = "DeveloperError"
             /\ roles = << >> /\ args = input
       /\ manifest.kind \in {"null", "number", "string"}
          => (pc = "thrown" /\ error.name = "DeveloperError")

\* The step captures the token after the front token as the value of the
\* option the front token names (a long option without '=', or the last flag
\* of a short group).
Captured ==
    /\ Len(args) >= 2 /\ pc' # "thrown"
    /\ BeginsWithDash(Head(args))
    /\ ~(IsLongToken(Head(args)) /\ HasEquals(Head(args)))
    /\ LET k == IF IsLongToken(Head(args)) THEN LongName(Head(args))
                ELSE << Head(args)[Len(Head(args))] >>
       IN  k \in DOMAIN parsed' /\ parsed'[k] = Str(args[2])

(***************************************************************************)
(* C20. Each step of the consumption loop removes the front token of the   *)
(* caller's array, and the token after it exactly when that token is       *)
(* captured as a value; no other step touches the array; the array is      *)
(* always what is left of the caller's tokens, and it is empty when parse  *)
(* returns.                                                                *)
(***************************************************************************)
C20_DestructiveConsumption ==
    [][ /\ Popping
           => /\ arg' = Head(args)
              /\ IF Captured THEN args' = Tail(Tail(args)) ELSE args' = Tail(args)
        /\ ~Popping => args' = args
        /\ args' = SubSeq(input, Len(input) - Len(args') + 1, Len(input))
        /\ pc' = "returned" => args' = << >> ]_vars

\* --a b 1.5 without manifest: three tokens removed in two steps, the array
\* is empty on return
C20_Witness ==
    /\ pc = "returned"
    /\ input = << <<"-","-","a">>, <<"b">>, <<"1",".","5">> >>
    /\ roles = << "option", "value", "positional" >>
    /\ args = << >>
    /\ parsed[KeyA] = Str(<<"b">>)

(***************************************************************************)
(* C21. Called without args, parse starts its loop on the entries of       *)
(* process.argv after the first two; and no step of parse, the shifts of   *)
(* the loop included, changes process.argv.                                *)
(***************************************************************************)
C21_DefaultsToProcessArgv ==
    [][ /\ processArgv' = processArgv
        /\ (pc = "start" /\ argsType = "undefined")
           => /\ pc' = "loop"
              /\ Len(args') = Len(processArgv) - 2
              /\ \A i \in 1..Len(args') : args'[i] = processArgv[i + 2] ]_vars

\* parse() with process.argv = node test.mjs --a b returned { a: 'b' }; its
\* own array is empty and process.argv still holds the four entries
C21_Witness ==
    /\ pc = "returned"
    /\ argsType = "undefined" /\ ~manifest.given
    /\ processArgv = ProcessPrefix \o << <<"-","-","a">>, <<"b">> >>
    /\ args = << >>
    /\ parsed[KeyA] = Str(<<"b">>)

(***************************************************************************)
(* Vocabulary of the rendering properties.                                 *)
(***************************************************************************)
\* The key is a positional index: digits only.
PositionalKey(k) == k # << >> /\ \A i \in 1..Len(k) : k[i] \in Digits

IsPositionalEntry(e) == PositionalKey(e.name)

IsOptionEntry(e) == ~PositionalKey(e.name)

\* What stands between < and >: the allow values joined by |, else the type.
Shown(opt) ==
    IF opt.allow.defined THEN JoinWith(opt.allow.items, <<"|">>)
    ELSE TypeChars(opt.type.name)

\* s, within [ ] when the entry is not required.
Bracketed(opt, s) == IF opt.required THEN s ELSE <<"[">> \o s \o <<"]">>

\* The part of an entry as the claim words it: -name=<type> for a named
\* entry, <type> for a positional one.
ClaimedPart(e) ==
    Bracketed(e.opt,
              IF PositionalKey(e.name)
              THEN <<"<">> \o TypeChars(e.opt.type.name) \o <<">">>
              ELSE <<"-">> \o e.name \o <<"=","<">>
                   \o TypeChars(e.opt.type.name) \o <<">">>)

\* The part of an entry by the form of its key and its type.
ExpectedPart(e) ==
    Bracketed(e.opt,
        CASE PositionalKey(e.name) /\ e.opt.type.name = "boolean" -> << >>
          [] PositionalKey(e.name) /\ e.opt.type.name # "boolean" ->
                <<"<">> \o Shown(e.opt) \o <<">">>
          [] ~PositionalKey(e.name) /\ Len(e.name) = 1
             /\ e.opt.type.name = "boolean" -> <<"-">> \o e.name
          [] ~PositionalKey(e.name) /\ Len(e.name) = 1
             /\ e.opt.type.name # "boolean" ->
                <<"-">> \o e.name \o <<" ","<">> \o Shown(e.opt) \o <<">">>
          [] ~PositionalKey(e.name) /\ Len(e.name) > 1
             /\ e.opt.type.name = "boolean" -> <<"-","-">> \o e.name
          [] ~PositionalKey(e.name) /\ Len(e.name) > 1
             /\ e.opt.type.name # "boolean" ->
                <<"-","-">> \o e.name \o <<"=","<">> \o Shown(e.opt) \o <<">">>)

RECURSIVE SpaceJoined(_, _)
\* The parts Part(e) of the entries es, separated by single spaces.
SpaceJoined(Part(_), es) ==
    IF Len(es) = 0 THEN << >>
    ELSE IF Len(es) = 1 THEN Part(es[1])
    ELSE Part(es[1]) \o <<" ">> \o SpaceJoined(Part, Tail(es))

\* The entries with the positional one (the model has the one key 0) first.
PositionalFirst(es) ==
    SelectSeq(es, IsPositionalEntry) \o SelectSeq(es, IsOptionEntry)

\* Every entry is of a kind the claim gives a form for: typed, without allow
\* list, and not boolean.
ClaimedForms ==
    /\ SchemaValidManifest
    /\ \A i \in 1..Len(manifest.entries) :
          /\ ~manifest.entries[i].opt.allow.defined
          /\ manifest.entries[i].opt.type.name # "boolean"

(***************************************************************************)
(* C22 as first stated. syntax returns the empty string for a manifest     *)
(* that is no object; for a manifest of typed, non-boolean entries without *)
(* allow list it returns the parts of the entries joined by single spaces, *)
(* a part being -name=<type> for a named entry and <type> for a positional *)
(* one, within [ ] exactly when the entry is not required.                 *)
(***************************************************************************)
C22_SyntaxAsClaimed ==
    pc \in {"returned", "thrown"}
    => /\ ~ObjectManifest => (pc = "returned" /\ out = << >>)
       /\ ClaimedForms
          => /\ pc = "returned"
             /\ out = SpaceJoined(ClaimedPart, PositionalFirst(manifest.entries))

(***************************************************************************)
(* C22, amended. syntax returns the empty string for a manifest that is no *)
(* object and throws DeveloperError for an object manifest that fails      *)
(* validation; otherwise it returns one part per entry, positional entries *)
(* first, joined by single spaces. A part is within [ ] exactly when the   *)
(* entry is not required. A named entry is written -n for a name of one    *)
(* character and --name for a longer one, followed, unless boolean, by     *)
(* " <v>" after -n and "=<v>" after --name; a positional entry is written  *)
(* <v>, or nothing when boolean; v is the allow values joined by | when an *)
(* allow list is declared and the type name otherwise.                     *)
(***************************************************************************)
C22_SyntaxForms ==
    pc \in {"returned", "thrown"}
    => /\ ~ObjectManifest => (pc = "returned" /\ out = << >>)
       /\ (ObjectManifest /\ ~SchemaValidManifest)
          => (pc = "thrown" /\ error.name = "DeveloperError")
       /\ SchemaValidManifest
          => /\ pc = "returned"
             /\ out = SpaceJoined(ExpectedPart, PositionalFirst(manifest.entries))
       /\ manifest = Manifest(<< Entry(KeyA, Opt(Type("int"), Undefined, TRUE, NoAllow)),
                                 Entry(Key0, Plain("string")) >>)
          => out = <<"[","<","s","t","r","i","n","g",">","]"," ","-","a"," ","<","i","n","t",">">>

\* syntax({ 'c-1': { type: 'string', allow: ['b', 'x'], required: true },
\*          0: { type: 'float' } }) returned '[<float>] --c-1=<b|x>'
C22_Witness ==
    /\ pc = "returned"
    /\ manifest = Manifest(<< Entry(KeyC1, Opt(Type("string"), Undefined, TRUE,
                                               Allow(<< Str(<<"b">>), Str(<<"x">>) >>))),
                              Entry(Key0, Plain("float")) >>)
    /\ out = <<"[","<","f","l","o","a","t",">","]"," ","-","-","c","-","1","=","<","b","|","x",">">>

\* The phase of parse an error belongs to: 1 consumption, 2 the unknown-option
\* check, 3 manifest validation, 4 coercion and constraints; 0 for the rest.
PhaseOf(e) ==
    CASE e = UserError("E_INVALID_OPT_NAME") -> 1
      [] e = UserError("E_UNKNOWN_OPT") -> 2
      [] e.name = "DeveloperError" /\ e.msg # "args" -> 3
      [] e.name = "UserError" /\ e.code \in {"E_INVALID_OPT_VALUE", "E_MISSING_OPT"} -> 4
      [] OTHER -> 0

(***************************************************************************)
(* C23. When parse ends on a token array and an object or absent manifest: *)
(* a bad option token means E_INVALID_OPT_NAME; otherwise an option that   *)
(* is no key of the given manifest means E_UNKNOWN_OPT, and positional     *)
(* tokens never do; otherwise a manifest that breaks a schema rule means   *)
(* DeveloperError; an error of the coercion phase, or a return, means that *)
(* none of the earlier phases had anything to fail on.                     *)
(***************************************************************************)
C23_PhaseOrder ==
    (Terminated /\ argsType # "string" /\ manifest.kind \in {"undefined", "object"})
    => LET bad     == SomeBadOption
           unknown == manifest.given /\ SomeUnknownOption
           broken  == manifest.given /\ ~SchemaValidManifest
       IN  /\ bad <=> PhaseOf(error) = 1
           /\ (~bad /\ unknown) <=> PhaseOf(error) = 2
           /\ (~bad /\ ~unknown /\ broken) => PhaseOf(error) = 3
           /\ PhaseOf(error) = 3 => (~bad /\ ~unknown)
           /\ (PhaseOf(error) = 4 \/ pc = "returned")
              => (~bad /\ ~unknown /\ ~broken)
           /\ PhaseOf(error) \in {1, 2}
              => (hiddenKeys = {} /\ \A k \in DOMAIN parsed : ~PositionalKey(k))

\* { a: { type: 'string', default: 1 } } with b --c-1: the positional b is
\* no unknown option, c-1 is, and the broken manifest is never looked at
C23_Witness ==
    /\ pc = "thrown"
    /\ error = UserError("E_UNKNOWN_OPT")
    /\ manifest = One(KeyA, Opt(Type("string"), Num(1, 1), FALSE, NoAllow))
    /\ input = << <<"b">>, <<"-","-","c","-","1">> >>
    /\ positional = << <<"b">> >>

\* The code of the failure the entry e meets on the tokens supplied, or "".
FailureCode(e) ==
    IF Supplied(e.name)
    THEN LET cast == Cast(e.opt, SuppliedValue(e.name))
         IN  IF cast.threw \/ NotAllowed(e.opt, cast.value)
             THEN "E_INVALID_OPT_VALUE" ELSE ""
    ELSE IF e.opt.default = Undefined /\ e.opt.required
         THEN "E_MISSING_OPT" ELSE ""

\* The first entry of es that fails on the tokens supplied.
FirstFailing(es) ==
    es[CHOOSE i \in 1..Len(es) :
          /\ FailureCode(es[i]) # ""
          /\ \A j \in 1..(i - 1) : FailureCode(es[j]) = ""]

\* parse failed in the coercion loop, on the entry at idx.
CoercionFailed == pc = "thrown" /\ PhaseOf(error) = 4

C25_OptionRendering ==
    CoercionFailed
    => out = IF CurrentOpt.type.name = "boolean" THEN CurrentName
             ELSE CurrentName \o <<"=","<">> \o Shown(CurrentOpt) \o <<">">>

(***************************************************************************)
(* C26. When parse returns with an object manifest: every enumerable key   *)
(* of the result that is no positional index is a key of the manifest;     *)
(* every manifest key in the result holds a boolean for boolean, a string  *)
(* for string, a whole number for int and a number for float; and a key    *)
(* the tokens supplied holds the supplied value coerced to its type.       *)
(***************************************************************************)
C26_ResultTyped ==
    (pc = "returned" /\ ObjectManifest)
    => /\ \A k \in EnumerableKeys : ~PositionalKey(k) => k \in ManifestKeys
       /\ \A i \in 1..Len(manifest.entries) :
             LET e == manifest.entries[i]
             IN  e.name \in DOMAIN parsed
                 => /\ MatchesType(parsed[e.name], e.opt.type.name)
                    /\ e.opt.type.name = "int" => parsed[e.name].d = 1
                    /\ Supplied(e.name)
                       => parsed[e.name] = Cast(e.opt, SuppliedValue(e.name)).value

\* { a: int, b: boolean, 0: int } with -aba 1.5 returned { a: 1, b: true }
C26_Witness ==
    /\ pc = "returned"
    /\ HasOwn(manifest, Key0) /\ HasOwn(manifest, KeyB)
    /\ input = << <<"-","a","b","a">>, <<"1",".","5">> >>
    /\ parsed[KeyA] = Num(1, 1)
    /\ parsed[KeyB] = Bool(TRUE)

(***************************************************************************)
(* C27. Each iteration of the consumption loop shortens the queue by one   *)
(* or two tokens; the loop is left only with the queue empty or by a       *)
(* throw; and, parse running to completion, the loop is always left.       *)
(***************************************************************************)
C27_LoopTerminates ==
    /\ [][ /\ Popping
              => /\ Len(args') \in { Len(args) - 1, Len(args) - 2 }
                 /\ pc' \in {"loop", "thrown"}
           /\ (pc = "loop" /\ pc' # "loop") => (args = << >> \/ pc' = "thrown")
           /\ Len(args') <= Len(args) ]_vars
    /\ (pc = "loop") ~> (pc # "loop" /\ (args = << >> \/ pc = "thrown"))

\* --a b was consumed in one iteration that removed both tokens, and the
\* loop was left with the queue empty
C27_Witness ==
    /\ pc = "insert"
    /\ input = << <<"-","-","a">>, <<"b">> >>
    /\ roles = << "option", "value" >>
    /\ args = << >>

(***************************************************************************)
(* C28. When the consumption loop has run to its end without a throw,      *)
(* every token of the input is accounted for: it is an option token that   *)
(* set at least one key, or the value captured by the option token just    *)
(* before it, or an element of the positional list; no token is removed    *)
(* without being recorded.                                                 *)
(***************************************************************************)
\* The token at position i set at least one key of parsed.
SetsAKey(i) ==
    /\ roles[i] = "option"
    /\ NamesSetBy(input[i]) # {}
    /\ NamesSetBy(input[i]) \subseteq DOMAIN parsed

\* The token at position i is the value of the option token before it.
IsCapturedValue(i) ==
    /\ roles[i] = "value"
    /\ i > 1 /\ roles[i - 1] = "option"
    /\ \E k \in NamesSetBy(input[i - 1]) : ValueGiven(i - 1, k) = Str(input[i])

\* The token at position i is an element of the positional list.
IsListed(i) ==
    /\ roles[i] = "positional"
    /\ \E j \in 1..Len(positional) :
          /\ positional[j] = input[i]
          /\ j = Len(PositionalsUpTo(i))

C28_EveryTokenRecorded ==
    pc = "insert"
    => /\ Len(roles) = Len(input)
       /\ \A i \in 1..Len(input) : SetsAKey(i) \/ IsCapturedValue(i) \/ IsListed(i)

(***************************************************************************)
(* C29. In every result parse returns, with or without a manifest, the     *)
(* key _ is present exactly when a positional token was met, and then it   *)
(* is the list of the positional tokens in order: no manifest entry and no *)
(* option token creates, replaces or alters it.                            *)
(***************************************************************************)
C29_ReservedKey ==
    pc = "returned"
    => /\ KeyUnderscore \in DOMAIN parsed <=> PositionalTokens # << >>
       /\ KeyUnderscore \in DOMAIN parsed
          => parsed[KeyUnderscore] = List(PositionalTokens)

(***************************************************************************)
(* C30. When parse fails on an option name (E_INVALID_OPT_NAME), the       *)
(* caller's array holds exactly the tokens after the offending token: that *)
(* token and all before it are gone. When parse fails in a later phase     *)
(* (unknown option, manifest validation, value, missing option) the        *)
(* caller's array is empty. The input is not restored on error.            *)
(***************************************************************************)
\* parse threw after it was handed an array by the caller.
FailedOnCallerArray == pc = "thrown" /\ argsType = "array"

\* The number of tokens removed when parse threw.
Removed == Len(roles)

C30_ArrayAfterError ==
    FailedOnCallerArray
    => /\ IF error = UserError("E_INVALID_OPT_NAME")
          THEN /\ Removed >= 1
               /\ roles[Removed] = "option"
               /\ BadOptionToken(input[Removed])
               /\ \A j \in 1..(Removed - 1) :
                     roles[j] = "option" => ~BadOptionToken(input[j])
               /\ args = SubSeq(input, Removed + 1, Len(input))
          ELSE /\ error.name \in {"UserError", "DeveloperError", "TypeError"}
               /\ args = << >>
       /\ input # << >> => args # input

\* --a --_ b: the name of the second token is refused; the first two tokens
\* are gone and the array holds b
C30_Witness ==
    /\ FailedOnCallerArray
    /\ error = UserError("E_INVALID_OPT_NAME")
    /\ input = << <<"-","-","a">>, <<"-","-","_">>, <<"b">> >>
    /\ args = << <<"b">> >>

\* a required option is missing: parse threw after the loop, and the array
\* that held --a b is empty
C30_WitnessLater ==
    /\ FailedOnCallerArray
    /\ error = UserError("E_MISSING_OPT")
    /\ input # << >>
    /\ args = << >>

====
